---- MODULE Spec2Model ----
(***************************************************************************)
(* Model of src/main.py: transceivers with circular coverage, the          *)
(* class-level registry Transceiver.__all, the recursive generator         *)
(* Transceiver.generate_possible_routes and its consumer find_route.       *)
(*                                                                         *)
(* A transceiver object is identified by its position in the registry      *)
(* (its field nr); all[i] holds its location and power.  Powers are        *)
(* written in units of 4*pi, so that power k stands for the number         *)
(* 4*pi*k of the dataset and range = sqrt(k / REC_MIN_DENSITY).  The       *)
(* powers drawn are perfect squares, for which the floating-point          *)
(* computation of range is exact (sqrt(4*pi*4 / 1 / (4*pi)) = 2.0).        *)
(***************************************************************************)
EXTENDS Integers, Sequences, FiniteSets, TLC

VARIABLES
    all,            \* Transceiver.__all: every transceiver ever constructed
    pc,             \* "idle" | "next_start" | "searching" | "done"
    transceivers,   \* find_route's local list (registry indices, input order)
    point_a,        \* find_route's point_a
    point_b,        \* find_route's point_b
    si,             \* how many elements of transceivers the start filter has consumed
    routes,         \* the routes list shared by the nested generators
    visited,        \* the visited list shared by the nested generators
    stack,          \* the nested generator frames, outermost first
    result          \* what find_route returned (None is the empty sequence)

vars == <<all, pc, transceivers, point_a, point_b, si, routes, visited, stack, result>>

\* ---- bounds ----
MaxAll == 4         \* cap on the number of transceivers ever constructed

\* cap on the length of the routes list; a run never reaches it, since
\* every route after the first ends at a different transceiver
MaxRoutes == MaxAll + 2

\* ---- program constants ----
REC_MIN_DENSITY == 1

None == <<>>

\* the dataset entries drawn: three transceivers of range 1 on corners of a
\* square of side 2 and one of range 2 on the fourth corner
TransceiverData ==
    {[location |-> <<0, 0>>, power |-> 1],
     [location |-> <<2, 0>>, power |-> 1],
     [location |-> <<2, 2>>, power |-> 1],
     [location |-> <<0, 2>>, power |-> 4]}

\* the points drawn for A and B
Points == {<<0, 0>>, <<1, 0>>, <<2, 2>>}

\* data['transceivers']: the sequences of at most n entries
Datasets(n) == UNION {[1..k -> TransceiverData] : k \in 0..n}

\* ---- Transceiver ----
\* math.sqrt on the perfect squares drawn
Sqrt(n) == CHOOSE r \in 0..n : r * r <= n /\ n < (r + 1) * (r + 1)

\* lines 38-47, with power in units of 4*pi
Range(t) == Sqrt(t.power \div REC_MIN_DENSITY)

\* lines 49-59
CoversPoint(t, point) ==
    LET dx == point[1] - t.location[1]
        dy == point[2] - t.location[2]
        r == Range(t)
    IN  dx * dx + dy * dy <= r * r

\* lines 61-68
IsNeighbour(a, b) ==
    LET dx == b.location[1] - a.location[1]
        dy == b.location[2] - a.location[2]
        r == Range(a) + Range(b)
    IN  dx * dx + dy * dy <= r * r

\* `neighbours`: the filter over the registry; j is a registry index
InNeighbours(i, j) == IsNeighbour(all[i], all[j]) /\ i # j

InSeq(x, s) == \E k \in 1..Len(s) : s[k] = x

Last(route) == route[Len(route)]

\* line 82: transceiver not in visited
NotVisited(t, vis) == ~InSeq(t, vis)

\* a plausible slip: the start route is extended instead of the current one
NewRouteFromStart(route, t) == <<route[1], t>>

\* line 84: new_route = route + [transceiver]
NewRoute(route, t) == route \o <<t>>

\* a plausible slip: visited.append(transceiver) is missing
MarkVisitedSkipped(vis, t) == vis

\* line 83: visited.append(transceiver)
MarkVisited(vis, t) == Append(vis, t)

\* ---- generate_possible_routes ----
\* A frame is one activation of the generator: ri is the position of its
\* `for route in routes` iterator, ni the number of registry entries its
\* `last.neighbours` filter has consumed for that route.

\* line 102: the generator find_route creates for a start transceiver
TopFrame == [ri |-> 1, ni |-> 0]

\* a plausible variant: the nested generator iterates from the route just
\* appended instead of from the head of the shared list (depth-first)
NestedFrameAtNewRoute == [ri |-> Len(routes) + 1, ni |-> 0]

\* line 87: the nested generator iterates the shared list from its head
NestedFrame == [ri |-> 1, ni |-> 0]

Top == stack[Len(stack)]

\* the (route position, registry index) pairs the frame f can still reach
\* and that pass `transceiver not in visited`
Candidates(f) ==
    {c \in (f.ri..Len(routes)) \X (1..Len(all)) :
        /\ (c[1] = f.ri => c[2] > f.ni)
        /\ InNeighbours(Last(routes[c[1]]), c[2])
        /\ NotVisited(c[2], visited)}

\* c is the first of them in iteration order: routes in list order, and for
\* one route the registry in order
IsFirstCandidate(c, f) ==
    \A d \in Candidates(f) : c[1] < d[1] \/ (c[1] = d[1] /\ c[2] <= d[2])

\* ---- find_route ----
\* the start_transceivers filter: positions after si whose transceiver covers A
StartsAfter(k) ==
    {m \in (k + 1)..Len(transceivers) : CoversPoint(all[transceivers[m]], point_a)}

\* a plausible slip: the candidates are tried from the end of the list
NextStartPosReversed(k) == CHOOSE m \in StartsAfter(k) : \A o \in StartsAfter(k) : m >= o

NextStartPos(k) == CHOOSE m \in StartsAfter(k) : \A o \in StartsAfter(k) : m <= o

Init ==
    /\ all = <<>>
    /\ pc = "idle"
    /\ transceivers = <<>>
    /\ point_a = <<0, 0>>
    /\ point_b = <<0, 0>>
    /\ si = 0
    /\ routes = <<>>
    /\ visited = <<>>
    /\ stack = <<>>
    /\ result = None

\* find_route, lines 95-99: construct the transceivers (each registers
\* itself in __all) and the two points
Call(data, a, b) ==
    /\ pc = "idle"
    /\ Len(all) + Len(data) <= MaxAll
    /\ all' = all \o data
    /\ transceivers' = [k \in 1..Len(data) |-> Len(all) + k]
    /\ point_a' = a
    /\ point_b' = b
    /\ si' = 0
    /\ routes' = <<>>
    /\ visited' = <<>>
    /\ stack' = <<>>
    /\ result' = None
    /\ pc' = "next_start"

\* find_route, line 101: the outer loop takes the next start transceiver and
\* creates its generator, or the loop ends and None is returned (line 106)
NextStart ==
    /\ pc = "next_start"
    /\ IF StartsAfter(si) = {}
       THEN /\ pc' = "done"
            /\ result' = None
            /\ UNCHANGED <<si, routes, visited, stack>>
       ELSE LET m == NextStartPos(si)
                t == transceivers[m]
            IN  /\ si' = m
                /\ routes' = <<<<t>>>>
                /\ visited' = <<t>>
                /\ stack' = <<TopFrame>>
                /\ pc' = "searching"
                /\ UNCHANGED result
    /\ UNCHANGED <<all, transceivers, point_a, point_b>>

\* the innermost generator reaches lines 83-86 and yields new_route; line 87
\* creates the nested generator; find_route (lines 103-105) returns the route
\* if its last transceiver covers B
Yield ==
    /\ pc = "searching"
    /\ stack # <<>>
    /\ Len(routes) < MaxRoutes
    /\ \E c \in Candidates(Top) :
        /\ IsFirstCandidate(c, Top)
        /\ \E new_route \in {NewRoute(routes[c[1]], c[2])} :
            /\ visited' = MarkVisited(visited, c[2])
            /\ routes' = Append(routes, new_route)
            /\ IF CoversPoint(all[Last(new_route)], point_b)
               THEN /\ result' = new_route
                    /\ pc' = "done"
                    /\ stack' = <<>>
               ELSE /\ stack' = [stack EXCEPT ![Len(stack)] = [ri |-> c[1], ni |-> c[2]]]
                                   \o <<NestedFrame>>
                    /\ UNCHANGED <<result, pc>>
    /\ UNCHANGED <<all, transceivers, point_a, point_b, si>>

\* the innermost generator runs off the end of `for route in routes`: its
\* frame ends, `yield from` continues in the enclosing frame; when the
\* outermost frame ends the generator is exhausted
Exhaust ==
    /\ pc = "searching"
    /\ stack # <<>>
    /\ Candidates(Top) = {}
    /\ stack' = SubSeq(stack, 1, Len(stack) - 1)
    /\ pc' = IF Len(stack) = 1 THEN "next_start" ELSE "searching"
    /\ UNCHANGED <<all, transceivers, point_a, point_b, si, routes, visited, result>>

\* find_route has returned (line 105 or 106): its locals and the generator
\* are gone, the registry stays
Return ==
    /\ pc = "done"
    /\ pc' = "idle"
    /\ transceivers' = <<>>
    /\ point_a' = <<0, 0>>
    /\ point_b' = <<0, 0>>
    /\ si' = 0
    /\ routes' = <<>>
    /\ visited' = <<>>
    /\ stack' = <<>>
    /\ result' = None
    /\ UNCHANGED all

\* draw_all, line 122: constructs the dataset's transceivers once more
DrawAll(data) ==
    /\ pc = "idle"
    /\ Len(all) + Len(data) <= MaxAll
    /\ all' = all \o data
    /\ UNCHANGED <<pc, transceivers, point_a, point_b, si, routes, visited, stack, result>>

Next ==
    \/ /\ pc = "idle"
       /\ \E data \in Datasets(MaxAll - Len(all)), a \in Points, b \in Points :
             Call(data, a, b)
    \/ NextStart
    \/ Yield
    \/ Exhaust
    \/ Return
    \/ /\ pc = "idle"
       /\ \E data \in Datasets(MaxAll - Len(all)) : DrawAll(data)

Spec == Init /\ [][Next]_vars

\* One call of find_route in a fresh process.  find_route is synchronous,
\* single-threaded code: once called, each of its steps is taken as soon as
\* it is possible.
NextFresh ==
    \/ /\ pc = "idle"
       /\ \E data \in Datasets(MaxAll), a \in Points, b \in Points : Call(data, a, b)
    \/ NextStart
    \/ Yield
    \/ Exhaust

FairSpec ==
    Init /\ [][NextFresh]_vars
         /\ WF_vars(NextStart) /\ WF_vars(Yield) /\ WF_vars(Exhaust)

\* ---------------------------------------------------------------------
\* The overlap graph, defined independently of the traversal
\* ---------------------------------------------------------------------
Nodes == 1..Len(all)

\* the transceivers the current call constructed
Dataset == {transceivers[k] : k \in 1..Len(transceivers)}

Adj(i, V) == {j \in V : InNeighbours(i, j)}

RECURSIVE ReachIn(_, _)
ReachIn(S, V) ==
    LET T == S \cup UNION {Adj(i, V) : i \in S}
    IN  IF T = S THEN S ELSE ReachIn(T, V)

RECURSIVE HopsRec(_, _, _, _)
HopsRec(frontier, seen, t, k) ==
    IF t \in frontier THEN k
    ELSE IF frontier = {} THEN -1
    ELSE LET nxt == (UNION {Adj(i, Nodes) : i \in frontier}) \ seen
         IN  HopsRec(nxt, seen \cup nxt, t, k + 1)

\* fewest neighbour links from s to t over the registry, -1 if none
Hops(s, t) == HopsRec({s}, {s}, t, 0)

CoversA(i) == CoversPoint(all[i], point_a)
CoversB(i) == CoversPoint(all[i], point_b)

Returned == pc = "done"
ReturnedRoute == pc = "done" /\ result # None

\* a run of the generator has been exhausted and its lists are still in place
RunEnded == pc \in {"next_start", "done"} /\ routes # <<>> /\ stack = <<>> /\ result = None

Lasts == {Last(routes[k]) : k \in 2..Len(routes)}

\* a chain of the dataset's own transceivers connects A to B
ChainExists ==
    \E s \in Dataset, t \in Dataset :
        CoversA(s) /\ CoversB(t) /\ t \in ReachIn({s}, Dataset)

\* a search from s can yield a route ending at a transceiver covering B
CanYieldB(s) == \E t \in ReachIn({s}, Nodes) \ {s} : CoversB(t)

PosOf(t) == CHOOSE m \in 1..Len(transceivers) : transceivers[m] = t

\* ---------------------------------------------------------------------
\* Claims
\* ---------------------------------------------------------------------

\* C1: a returned route is a valid simple chain: its first transceiver
\* covers A, its last covers B, consecutive transceivers are neighbours and
\* no transceiver occurs twice.
C1_RouteIsValidChain ==
    ReturnedRoute =>
        /\ CoversA(result[1])
        /\ CoversB(Last(result))
        /\ \A k \in 1..(Len(result) - 1) : IsNeighbour(all[result[k]], all[result[k + 1]])
        /\ \A k, l \in 1..Len(result) : k # l => result[k] # result[l]

C1_Witness == ReturnedRoute /\ Len(result) >= 3

\* C2: if a single transceiver of the dataset covers both A and B, find_route
\* returns a one-element route holding a transceiver that covers both.
C2_SingleCoverReturnsItself ==
    (Returned /\ \E t \in Dataset : CoversA(t) /\ CoversB(t)) =>
        /\ result # None
        /\ Len(result) = 1
        /\ CoversA(result[1]) /\ CoversB(result[1])

\* C3: find_route is complete: whenever a chain of one or more distinct
\* transceivers of the dataset connects A to B, a route is returned.
C3_Complete == (Returned /\ ChainExists) => result # None

\* C4: transceivers constructed by an earlier call take no part in a later
\* call: the search visits, and the result holds, only the call's own dataset.
C4_NoStateAcrossCalls ==
    /\ \A k \in 1..Len(visited) : visited[k] \in Dataset
    /\ \A k \in 1..Len(result) : result[k] \in Dataset

\* C5: every run of the generator ends and find_route returns, also on
\* overlap graphs with cycles.
C5_Terminates ==
    /\ (pc = "searching") ~> (pc \in {"next_start", "done"})
    /\ (pc = "next_start") ~> (pc = "done")

\* a run over three mutually neighbouring transceivers has been exhausted
C5_Witness ==
    /\ RunEnded
    /\ \E i, j, k \in Lasts \cup {routes[1][1]} :
          /\ InNeighbours(i, j) /\ InNeighbours(j, k) /\ InNeighbours(i, k)

\* C6: if no chain of the dataset's overlap graph connects a transceiver
\* covering A to one covering B, find_route returns None.
C6_DisconnectedReturnsNone == (Returned /\ ~ChainExists) => result = None

\* C7: the candidates covering A are tried in input order and the first
\* success is returned: the route starts at the earliest candidate whose
\* search can yield a route ending on a transceiver covering B, and it is the
\* first such route of that search; None is returned only if no candidate's
\* search can yield one.
C7_FirstSuccessInInputOrder ==
    /\ ReturnedRoute =>
          /\ result[1] \in Dataset /\ CoversA(result[1])
          /\ \A m \in 1..(PosOf(result[1]) - 1) :
                CoversA(transceivers[m]) => ~CanYieldB(transceivers[m])
          /\ result = Last(routes)
          /\ \A k \in 2..(Len(routes) - 1) : ~CoversB(Last(routes[k]))
    /\ (Returned /\ result = None) =>
          \A m \in 1..Len(transceivers) :
              CoversA(transceivers[m]) => ~CanYieldB(transceivers[m])

\* an earlier candidate was tried without success before the one returned
C7_Witness ==
    /\ ReturnedRoute
    /\ \E m \in 1..(PosOf(result[1]) - 1) : CoversA(transceivers[m])

\* C8: every route explored is expanded by each neighbour of its last
\* transceiver that is not in that route: when a run ends, r + [t] is in the
\* routes list for every route r of the list and every such neighbour t.
C8_ExpandsByEachNeighbourNotInRoute ==
    RunEnded =>
        \A k \in 1..Len(routes) : \A t \in Nodes :
            (InNeighbours(Last(routes[k]), t) /\ ~InSeq(t, routes[k]))
                => InSeq(routes[k] \o <<t>>, routes)

\* C9: a complete run yields exactly one route ending at each transceiver
\* reachable from start and different from it, and nothing else; every
\* yielded route has at least two transceivers and no two end alike.
C9_OneRoutePerReachable ==
    /\ \A k \in 2..Len(routes) :
          /\ Len(routes[k]) >= 2
          /\ routes[k][1] = routes[1][1]
          /\ Last(routes[k]) # routes[1][1]
          /\ \A l \in 2..Len(routes) : k # l => Last(routes[k]) # Last(routes[l])
    /\ RunEnded => Lasts = ReachIn({routes[1][1]}, Nodes) \ {routes[1][1]}

C9_Witness == RunEnded /\ Len(routes) >= 3

\* C10: routes are yielded in breadth-first order: in non-decreasing length,
\* each a minimum-hop path from start to its last transceiver; the route
\* find_route returns has the fewest transceivers among the routes from its
\* first transceiver to another transceiver covering B.
C10_BreadthFirst ==
    /\ \A k \in 2..Len(routes) :
          /\ Len(routes[k]) = Hops(routes[1][1], Last(routes[k])) + 1
          /\ \A l \in 2..k : Len(routes[l]) <= Len(routes[k])
    /\ ReturnedRoute =>
          \A t \in Nodes \ {result[1]} :
              (CoversB(t) /\ Hops(result[1], t) >= 0)
                  => Len(result) <= Hops(result[1], t) + 1

\* a route of three transceivers is yielded although a later neighbour of
\* start is still unvisited when its two-element prefix is yielded
C10_Witness ==
    /\ Len(routes) >= 4
    /\ Len(routes[2]) = 2 /\ Len(routes[3]) = 2 /\ Len(Last(routes)) = 3
    /\ InNeighbours(Last(routes[2]), Last(routes[3]))

====
